---- MODULE Spec2Model ----
(***************************************************************************)
(* Polled-mode SPI1 master driver for STM32 (spi_baremetal.c).             *)
(*                                                                         *)
(* A 32-bit register word is represented by the set of its set bit         *)
(* positions (a subset of 0..31): `|` is union, `&` is intersection, `~`   *)
(* is the complement in 0..31 and `<<` moves positions up and drops the    *)
(* ones that leave the word.  The values of a word exceed the integers of  *)
(* the model checker, the bit sets do not.                                 *)
(*                                                                         *)
(* Every C statement that accesses a volatile register is one step of the  *)
(* model; every iteration of a spin-wait (one read of SPI1_SR) is one      *)
(* step.  The only actor is the CPU: no interrupt handler and no second    *)
(* thread exist in the program.                                            *)
(***************************************************************************)
EXTENDS Integers, Sequences, FiniteSets

\* ------------------------------------------------------------------ bounds

\* The counter `polls` of consecutive status reads saturates at this value.
MaxPolls == 5

\* ------------------------------------------------------------ C operators

WORD == 0 .. 31

\* An integer literal below 2^16 as a word.
Bits(n) == { i \in 0 .. 15 : (n \div (2 ^ i)) % 2 = 1 }

\* x << k on a 32-bit word.
Shl(x, k) == { i + k : i \in x } \cap WORD

\* ~x on a 32-bit word.
Not32(x) == WORD \ x

\* Conversion to uint8_t: the low eight bits.
ToU8(x) == x \cap (0 .. 7)

\* ------------------------------------------------------------- registers

RegNames ==
  { "RCC_AHB1ENR", "RCC_APB2ENR", "GPIOA_MODER", "GPIOA_AFRL", "GPIOA_ODR", "SPI1_CR1" }

\* The select pin taken for PA5.
NSS_PIN_PA5 == Shl(Bits(1), 5)

\* PA4 - NSS (Slave Select)
NSS_PIN == Shl(Bits(1), 4)

\* The TXE wait looking at bit 0 (RXNE).
SR_TXE_bit0 == Shl(Bits(1), 0)

\* The RXNE wait looking at bit 8, which the status register never sets.
SR_RXNE_bit8 == Shl(Bits(1), 8)

\* Status-register flag masks used by the spin-waits.
SR_TXE  == Shl(Bits(1), 1)
SR_BSY  == Shl(Bits(1), 7)
SR_RXNE == Shl(Bits(1), 0)

\* ------------------------------------------------------- values drawn

\* spi_exchange_data takes a uint8_t; main passes 0x55.
TxBytes == { Bits(85), Bits(0), Bits(170) }

\* What the hardware may show in SPI1_SR on a read: every combination of
\* RXNE (0), TXE (1) and BSY (7).
SRValues == { a \cup b \cup c : a \in { {}, {0} }, b \in { {}, {1} }, c \in { {}, {7} } }

\* What the hardware may hold in SPI1_DR when it is read (8-bit frames).
DRValues == { Bits(0), Bits(170), Bits(255) }

\* Register values before main runs: the reset value of the part and values
\* left by earlier startup code.
PreValues ==
  [ RCC_AHB1ENR : { {20}, WORD \ {0} },
    RCC_APB2ENR : { {}, {0, 14} },
    GPIOA_MODER : { {27, 29, 31}, WORD, { 2 * i : i \in 0 .. 15 } },
    GPIOA_AFRL  : { {}, WORD },
    GPIOA_ODR   : { {}, {4}, (0 .. 15) \ {4} },
    SPI1_CR1    : { {}, 0 .. 15 } ]

\* ------------------------------------------------------------------ state

VARIABLES
  pc,             \* the statement the CPU executes next
  ipc,            \* inside spi_init: index of its next statement
  regs,           \* the memory-mapped registers the CPU writes
  pre,            \* the registers' values when main started
  wlog,           \* the register writes of spi_init, in order
  data,           \* spi_exchange_data's argument
  sr,             \* the value of the last read of SPI1_SR
  txdr,           \* the value of the last write to SPI1_DR
  rxdr,           \* the value of the last read of SPI1_DR
  received_data,  \* spi_exchange_data's local
  retval,         \* what the last spi_exchange_data call returned: << >> is nothing
  polls,          \* consecutive reads of SPI1_SR up to now (saturating)
  drWrites,       \* writes of SPI1_DR in the current call
  drReads,        \* reads of SPI1_DR in the current call
  odrWrites,      \* writes of GPIOA_ODR in the current call
  csRises,        \* 0 -> 1 changes of GPIOA_ODR bit 4 in the current call
  events,         \* the current call's register accesses, in order, without
                  \* the status reads that kept a spin-wait spinning
  idleReads       \* status reads of the current TXE wait that showed TXE = 0
                  \* (saturating)

vars ==
  << pc, ipc, regs, pre, wlog, data, sr, txdr, rxdr, received_data, retval,
     polls, drWrites, drReads, odrWrites, csRises, events, idleReads >>

xfer == << data, sr, txdr, rxdr, received_data, retval,
           polls, drWrites, drReads, odrWrites, csRises, events, idleReads >>

\* ------------------------------------------------------------- spi_init

Stmt(l, r, o, v) == [ line |-> l, reg |-> r, op |-> o, val |-> v ]

\* The clock enables stored with `=` in place of `|=`.
spi_init_clocks_assign ==
  << Stmt(51, "RCC_AHB1ENR", "=", Shl(Bits(1), 0)),
     Stmt(54, "RCC_APB2ENR", "=", Shl(Bits(1), 12)) >>

\* RCC_AHB1ENR |= (1 << 0);  RCC_APB2ENR |= (1 << 12);
spi_init_clocks ==
  << Stmt(51, "RCC_AHB1ENR", "|=", Shl(Bits(1), 0)),
     Stmt(54, "RCC_APB2ENR", "|=", Shl(Bits(1), 12)) >>

\* The pin fields set with `=` in place of `|=`.
spi_init_pins_assign ==
  << Stmt(57, "GPIOA_MODER", "&=",
          Not32(Shl(Bits(3), 8) \cup Shl(Bits(3), 10) \cup Shl(Bits(3), 12) \cup Shl(Bits(3), 14))),
     Stmt(58, "GPIOA_MODER", "=",
          Shl(Bits(2), 8) \cup Shl(Bits(2), 10) \cup Shl(Bits(2), 12) \cup Shl(Bits(2), 14)),
     Stmt(61, "GPIOA_AFRL", "&=",
          Not32(Shl(Bits(15), 16) \cup Shl(Bits(15), 20) \cup Shl(Bits(15), 24) \cup Shl(Bits(15), 28))),
     Stmt(62, "GPIOA_AFRL", "=",
          Shl(Bits(5), 16) \cup Shl(Bits(5), 20) \cup Shl(Bits(5), 24) \cup Shl(Bits(5), 28)) >>

\* The pin fields set without the clearing statements.
spi_init_pins_no_clear ==
  << Stmt(58, "GPIOA_MODER", "|=",
          Shl(Bits(2), 8) \cup Shl(Bits(2), 10) \cup Shl(Bits(2), 12) \cup Shl(Bits(2), 14)),
     Stmt(62, "GPIOA_AFRL", "|=",
          Shl(Bits(5), 16) \cup Shl(Bits(5), 20) \cup Shl(Bits(5), 24) \cup Shl(Bits(5), 28)) >>

\* The mode and alternate-function fields of PA4..PA7.
\* (0xF << 28) leaves the range of int; gcc and clang for the target define
\* the shift and give 0xF0000000, so the AFRL clear mask is 0x0000FFFF.
spi_init_pins ==
  << Stmt(57, "GPIOA_MODER", "&=",
          Not32(Shl(Bits(3), 8) \cup Shl(Bits(3), 10) \cup Shl(Bits(3), 12) \cup Shl(Bits(3), 14))),
     Stmt(58, "GPIOA_MODER", "|=",
          Shl(Bits(2), 8) \cup Shl(Bits(2), 10) \cup Shl(Bits(2), 12) \cup Shl(Bits(2), 14)),
     Stmt(61, "GPIOA_AFRL", "&=",
          Not32(Shl(Bits(15), 16) \cup Shl(Bits(15), 20) \cup Shl(Bits(15), 24) \cup Shl(Bits(15), 28))),
     Stmt(62, "GPIOA_AFRL", "|=",
          Shl(Bits(5), 16) \cup Shl(Bits(5), 20) \cup Shl(Bits(5), 24) \cup Shl(Bits(5), 28)) >>

\* SPE set right after the zeroing write, before the other fields.
spi_init_cr1_enable_first ==
  << Stmt(65, "SPI1_CR1", "=",  Bits(0)),
     Stmt(70, "SPI1_CR1", "|=", Shl(Bits(1), 6)),
     Stmt(66, "SPI1_CR1", "|=", Shl(Bits(1), 2)),
     Stmt(67, "SPI1_CR1", "|=", Shl(Bits(3), 3)),
     Stmt(68, "SPI1_CR1", "|=", Shl(Bits(0), 1)),
     Stmt(69, "SPI1_CR1", "|=", Shl(Bits(0), 0)) >>

\* The first statement ORs 0 into the register in place of storing 0.
spi_init_cr1_no_zero ==
  << Stmt(65, "SPI1_CR1", "|=", Bits(0)),
     Stmt(66, "SPI1_CR1", "|=", Shl(Bits(1), 2)),
     Stmt(67, "SPI1_CR1", "|=", Shl(Bits(3), 3)),
     Stmt(68, "SPI1_CR1", "|=", Shl(Bits(0), 1)),
     Stmt(69, "SPI1_CR1", "|=", Shl(Bits(0), 0)),
     Stmt(70, "SPI1_CR1", "|=", Shl(Bits(1), 6)) >>

\* SPI1_CR1: zero, master, fPCLK/16, CPOL = 0, CPHA = 0, SPE.
spi_init_cr1 ==
  << Stmt(65, "SPI1_CR1", "=",  Bits(0)),
     Stmt(66, "SPI1_CR1", "|=", Shl(Bits(1), 2)),
     Stmt(67, "SPI1_CR1", "|=", Shl(Bits(3), 3)),
     Stmt(68, "SPI1_CR1", "|=", Shl(Bits(0), 1)),
     Stmt(69, "SPI1_CR1", "|=", Shl(Bits(0), 0)),
     Stmt(70, "SPI1_CR1", "|=", Shl(Bits(1), 6)) >>

\* The pins configured before their clocks are enabled.
spi_init_body_pins_first == spi_init_pins \o spi_init_clocks \o spi_init_cr1

\* spi_init: the clocks, the pins, the control register.
spi_init_body == spi_init_clocks \o spi_init_pins \o spi_init_cr1

\* The value a statement stores, given the value it read.
Store(op, old, val) ==
  CASE op = "="  -> val
    [] op = "|=" -> old \cup val
    [] op = "&=" -> old \cap val

\* ------------------------------------------------------------------- Init

Init ==
  /\ pc = "L37"
  /\ ipc = 1
  /\ pre \in PreValues
  /\ regs = pre
  /\ wlog = << >>
  /\ data = Bits(0)
  /\ sr = Bits(0)
  /\ txdr = Bits(0)
  /\ rxdr = Bits(0)
  /\ received_data = Bits(0)
  /\ retval = << >>
  /\ polls = 0
  /\ drWrites = 0
  /\ drReads = 0
  /\ odrWrites = 0
  /\ csRises = 0
  /\ events = << >>
  /\ idleReads = 0

\* ------------------------------------------------------------------- main

\* main going to its loop without calling spi_init.
main_skips_spi_init ==
  /\ pc = "L37"
  /\ pc' = "L41"
  /\ UNCHANGED << ipc, regs, pre, wlog >>
  /\ UNCHANGED xfer

\* main: spi_init();
main_call_spi_init ==
  /\ pc = "L37"
  /\ pc' = "spi_init"
  /\ ipc' = 1
  /\ UNCHANGED << regs, pre, wlog >>
  /\ UNCHANGED xfer

\* One statement of spi_init: a read-modify-write (or a store) of one register.
spi_init_stmt ==
  /\ pc = "spi_init"
  /\ ipc <= Len(spi_init_body)
  /\ LET s == spi_init_body[ipc]
         v == Store(s.op, regs[s.reg], s.val)
     IN  /\ regs' = [regs EXCEPT ![s.reg] = v]
         /\ wlog' = Append(wlog, [line |-> s.line, reg |-> s.reg, val |-> v])
  /\ ipc' = ipc + 1
  /\ UNCHANGED << pc, pre >>
  /\ UNCHANGED xfer

\* spi_init returns into main's loop.
spi_init_return ==
  /\ pc = "spi_init"
  /\ ipc = Len(spi_init_body) + 1
  /\ pc' = "L41"
  /\ UNCHANGED << ipc, regs, pre, wlog >>
  /\ UNCHANGED xfer

\* while (1) { spi_exchange_data(0x55); }: the call.
main_call_exchange ==
  /\ pc = "L41"
  /\ \E d \in TxBytes : data' = ToU8(d)
  /\ pc' = "L91"
  /\ polls' = 0
  /\ drWrites' = 0
  /\ drReads' = 0
  /\ odrWrites' = 0
  /\ csRises' = 0
  /\ events' = << >>
  /\ idleReads' = 0
  /\ UNCHANGED << ipc, regs, pre, wlog, sr, txdr, rxdr, received_data, retval >>

\* ------------------------------------------------------ spi_exchange_data

Rise(old, new) == IF 4 \notin old /\ 4 \in new THEN 1 ELSE 0

\* How a register access appears in `events`: a write of GPIOA_ODR by the
\* level it gives bit 4, a status read by the value of the flag its spin-wait
\* awaits.
EvODR(new) == IF 4 \in new THEN "CS=1" ELSE "CS=0"
EvSR(flag, bit, v) == IF bit \in v THEN <<"SR", flag, 1>> ELSE <<"SR", flag, 0>>

\* The select statement storing ~NSS_PIN with `=` in place of `&=`.
exchange_select_assign ==
  /\ pc = "L91"
  /\ regs' = [regs EXCEPT !["GPIOA_ODR"] = Not32(NSS_PIN)]
  /\ odrWrites' = odrWrites + 1
  /\ csRises' = csRises + Rise(regs["GPIOA_ODR"], regs'["GPIOA_ODR"])
  /\ polls' = 0
  /\ events' = Append(events, <<EvODR(regs'["GPIOA_ODR"])>>)
  /\ pc' = "L76"
  /\ UNCHANGED << ipc, pre, wlog, data, sr, txdr, rxdr, received_data, retval,
                  drWrites, drReads, idleReads >>

\* GPIOA_ODR &= ~NSS_PIN;
exchange_select ==
  /\ pc = "L91"
  /\ regs' = [regs EXCEPT !["GPIOA_ODR"] = @ \cap Not32(NSS_PIN)]
  /\ odrWrites' = odrWrites + 1
  /\ csRises' = csRises + Rise(regs["GPIOA_ODR"], regs'["GPIOA_ODR"])
  /\ polls' = 0
  /\ events' = Append(events, <<EvODR(regs'["GPIOA_ODR"])>>)
  /\ pc' = "L76"
  /\ UNCHANGED << ipc, pre, wlog, data, sr, txdr, rxdr, received_data, retval,
                  drWrites, drReads, idleReads >>

\* The BSY wait with its test inverted.
BSY_spin_inverted(v) == (v \cap Shl(Bits(1), 7)) = {}

\* The TXE wait with its test inverted.
TXE_spin_inverted(v) == (v \cap Shl(Bits(1), 1)) # {}

\* The RXNE wait looking at bit 1 (TXE).
RXNE_spin_bit1(v) == (v \cap Shl(Bits(1), 1)) = {}

\* The loop conditions of the three spin-waits: TRUE keeps spinning.
TXE_spin(v)  == (v \cap SR_TXE) = {}
BSY_spin(v)  == (v \cap SR_BSY) # {}
RXNE_spin(v) == (v \cap SR_RXNE) = {}

Sat(n) == IF n < MaxPolls THEN n + 1 ELSE MaxPolls

\* while (!(SPI1_SR & (1 << 1)));   one evaluation: one read of SPI1_SR
transmit_wait_TXE ==
  /\ pc = "L76"
  /\ \E v \in SRValues :
       /\ sr' = v
       /\ pc' = IF TXE_spin(v) THEN "L76" ELSE "L77"
       /\ events' = IF TXE_spin(v) THEN events ELSE Append(events, EvSR("TXE", 1, v))
       /\ idleReads' = IF 1 \in v THEN idleReads ELSE Sat(idleReads)
  /\ polls' = Sat(polls)
  /\ UNCHANGED << ipc, regs, pre, wlog, data, txdr, rxdr, received_data, retval,
                  drWrites, drReads, odrWrites, csRises >>

\* The data register written from the receive variable.
transmit_write_DR_received ==
  /\ pc = "L77"
  /\ txdr' = received_data
  /\ drWrites' = drWrites + 1
  /\ polls' = 0
  /\ idleReads' = 0
  /\ events' = Append(events, <<"DR", "write">>)
  /\ pc' = "L79"
  /\ UNCHANGED << ipc, regs, pre, wlog, data, sr, rxdr, received_data, retval,
                  drReads, odrWrites, csRises >>

\* SPI1_DR = data;
transmit_write_DR ==
  /\ pc = "L77"
  /\ txdr' = data
  /\ drWrites' = drWrites + 1
  /\ polls' = 0
  /\ idleReads' = 0
  /\ events' = Append(events, <<"DR", "write">>)
  /\ pc' = "L79"
  /\ UNCHANGED << ipc, regs, pre, wlog, data, sr, rxdr, received_data, retval,
                  drReads, odrWrites, csRises >>

\* while (SPI1_SR & (1 << 7));   then spi_transmit returns
transmit_wait_BSY ==
  /\ pc = "L79"
  /\ \E v \in SRValues :
       /\ sr' = v
       /\ pc' = IF BSY_spin(v) THEN "L79" ELSE "L85"
       /\ events' = IF BSY_spin(v) THEN events ELSE Append(events, EvSR("BSY", 7, v))
  /\ polls' = Sat(polls)
  /\ UNCHANGED << ipc, regs, pre, wlog, data, txdr, rxdr, received_data, retval,
                  drWrites, drReads, odrWrites, csRises, idleReads >>

\* while (!(SPI1_SR & (1 << 0)));
receive_wait_RXNE ==
  /\ pc = "L85"
  /\ \E v \in SRValues :
       /\ sr' = v
       /\ pc' = IF RXNE_spin(v) THEN "L85" ELSE "L86"
       /\ events' = IF RXNE_spin(v) THEN events ELSE Append(events, EvSR("RXNE", 0, v))
  /\ polls' = Sat(polls)
  /\ UNCHANGED << ipc, regs, pre, wlog, data, txdr, rxdr, received_data, retval,
                  drWrites, drReads, odrWrites, csRises, idleReads >>

\* return SPI1_DR;   uint8_t received_data = spi_receive();
receive_read_DR ==
  /\ pc = "L86"
  /\ \E v \in DRValues :
       /\ rxdr' = v
       /\ received_data' = ToU8(v)
  /\ drReads' = drReads + 1
  /\ polls' = 0
  /\ events' = Append(events, <<"DR", "read">>)
  /\ pc' = "L94"
  /\ UNCHANGED << ipc, regs, pre, wlog, data, sr, txdr, retval,
                  drWrites, odrWrites, csRises, idleReads >>

\* GPIOA_ODR |= NSS_PIN;
exchange_deselect ==
  /\ pc = "L94"
  /\ regs' = [regs EXCEPT !["GPIOA_ODR"] = @ \cup NSS_PIN]
  /\ odrWrites' = odrWrites + 1
  /\ csRises' = csRises + Rise(regs["GPIOA_ODR"], regs'["GPIOA_ODR"])
  /\ events' = Append(events, <<EvODR(regs'["GPIOA_ODR"])>>)
  /\ pc' = "L95"
  /\ UNCHANGED << ipc, pre, wlog, data, sr, txdr, rxdr, received_data, retval,
                  polls, drWrites, drReads, idleReads >>

\* What void spi_exchange_data hands back to its caller: nothing.
exchange_result(rd) == << >>

\* }   spi_exchange_data returns to main
exchange_return ==
  /\ pc = "L95"
  /\ retval' = exchange_result(received_data)
  /\ pc' = "L42"
  /\ UNCHANGED << ipc, regs, pre, wlog, data, sr, txdr, rxdr, received_data,
                  polls, drWrites, drReads, odrWrites, csRises, events, idleReads >>

\* The end of the loop body: back to the call.
main_loop ==
  /\ pc = "L42"
  /\ pc' = "L41"
  /\ UNCHANGED << ipc, regs, pre, wlog >>
  /\ UNCHANGED xfer

\* ------------------------------------------------------------------- Spec

Next ==
  \/ main_call_spi_init
  \/ spi_init_stmt
  \/ spi_init_return
  \/ main_call_exchange
  \/ exchange_select
  \/ transmit_wait_TXE
  \/ transmit_write_DR
  \/ transmit_wait_BSY
  \/ receive_wait_RXNE
  \/ receive_read_DR
  \/ exchange_deselect
  \/ exchange_return
  \/ main_loop

Spec == Init /\ [][Next]_vars

TypeOK ==
  /\ pc \in { "L37", "spi_init", "L41", "L42", "L91", "L76", "L77", "L79", "L85",
              "L86", "L94", "L95" }
  /\ ipc \in 1 .. Len(spi_init_body) + 1
  /\ regs \in [RegNames -> SUBSET WORD]
  /\ polls \in 0 .. MaxPolls
  /\ idleReads \in 0 .. MaxPolls
  /\ Len(events) <= 7

\* ----------------------------------------------------------- observations

\* The chip-select output bit: bit 4 of the GPIO output-data register.
CSHigh == 4 \in regs["GPIOA_ODR"]
CSLow  == 4 \notin regs["GPIOA_ODR"]

\* The steps that access the data register, and the last status read of a call.
DRWriteStep == drWrites' # drWrites /\ drWrites' # 0
DRReadStep  == drReads' # drReads /\ drReads' # 0
LastSRRead  == pc = "L85" /\ pc' # "L85"

\* ------------------------------------------------------------------ claims

\* C1: exchange_byte(tx) returns to its caller the byte read from the data
\* register after RXNE was seen set, whatever the hardware placed there.
C1_ReturnsByteRead == pc = "L42" => retval = << rxdr >>

\* C2 as stated: chip-select is low from before the first data-register write,
\* is high again immediately after the last status-register read, and the
\* output-data register is not written in between.
C2_HighRightAfterLastStatusRead ==
  [][ /\ (DRWriteStep => CSLow /\ odrWrites = 1)
      /\ (LastSRRead => 4 \in regs'["GPIOA_ODR"]) ]_vars

\* C2 amended: chip-select is low from before the first data-register write
\* and through the last status-register read; the step after that read is the
\* data-register read, the step after it sets chip-select high, and the
\* output-data register is written exactly twice in the call (the clearing
\* write and the setting write).
C2_SelectBracket ==
  /\ [][ /\ (DRWriteStep => CSLow /\ odrWrites = 1)
         /\ (LastSRRead => 4 \notin regs'["GPIOA_ODR"] /\ odrWrites' = 1 /\ pc' = "L86")
         /\ (pc = "L86" => DRReadStep /\ regs' = regs /\ pc' = "L94")
         /\ (pc = "L94" => 4 \in regs'["GPIOA_ODR"] /\ odrWrites' = 2) ]_vars
  /\ [](pc \in { "L76", "L77", "L79", "L85", "L86", "L94" } => CSLow /\ odrWrites = 1)

C2_Witness == pc = "L95" /\ CSHigh /\ odrWrites = 2 /\ drWrites = 1 /\ drReads = 1

\* C3: the data register is written only after a status read returned TXE = 1
\* and read only after a status read returned RXNE = 1; a status read that
\* shows the awaited flag clear is followed by another status read, with no
\* data-register access.
C3_PollThenAct ==
  [][ /\ (DRWriteStep => 1 \in sr)
      /\ (DRReadStep => 0 \in sr)
      /\ (pc = "L76" /\ 1 \notin sr' => pc' = "L76" /\ drWrites' = drWrites /\ txdr' = txdr)
      /\ (pc = "L85" /\ 0 \notin sr' => pc' = "L85" /\ drReads' = drReads /\ rxdr' = rxdr) ]_vars

C3_Witness == pc = "L94" /\ drWrites = 1 /\ drReads = 1 /\ 0 \in sr /\ 1 \notin sr

\* C4: whenever spi_init has returned and no exchange is in progress (before
\* the first call and between calls), the chip-select output bit is high.
C4_HighWhenIdle == pc \in { "L41", "L42" } => CSHigh

\* C5: every chip-select-low interval holds exactly one data-register write,
\* of the call's tx argument, followed by exactly one data-register read, and
\* chip-select rises exactly once per call.
C5_OneTransferPerSelect ==
  /\ [][ /\ (DRWriteStep => CSLow /\ 4 \notin regs'["GPIOA_ODR"] /\ drReads = 0)
         /\ (DRReadStep => CSLow /\ 4 \notin regs'["GPIOA_ODR"] /\ drWrites = 1)
         /\ (csRises' > csRises => drWrites = 1 /\ drReads = 1) ]_vars
  /\ [] /\ drWrites <= 1 /\ drReads <= drWrites /\ csRises <= 1
        /\ (drWrites = 1 => txdr = data)
        /\ (pc \in { "L95", "L42" } => drWrites = 1 /\ drReads = 1 /\ csRises = 1)

C5_Witness ==
  pc = "L42" /\ drWrites = 1 /\ drReads = 1 /\ csRises = 1 /\ txdr = Bits(85) /\ retval = << >>

\* The registers spi_init has written so far, and the places of its writes.
Written(r) == { i \in 1 .. Len(wlog) : wlog[i].reg = r }

\* C6: in spi_init the writes that set RCC_AHB1ENR bit 0 and RCC_APB2ENR bit 12
\* both come strictly before the first write of GPIOA_MODER, GPIOA_AFRL or
\* SPI1_CR1.
C6_ClocksBeforeConfig ==
  \A i \in Written("GPIOA_MODER") \cup Written("GPIOA_AFRL") \cup Written("SPI1_CR1") :
    /\ \E j \in Written("RCC_AHB1ENR") : j < i /\ 0 \in wlog[j].val
    /\ \E k \in Written("RCC_APB2ENR") : k < i /\ 12 \in wlog[k].val

C6_Witness ==
  /\ pc = "L41"
  /\ Written("GPIOA_MODER") # {} /\ Written("GPIOA_AFRL") # {} /\ Written("SPI1_CR1") # {}

\* C7: in spi_init the enable bit (SPI1_CR1 bit 6) is 0 from the zeroing write
\* until the last write; the write that sets it comes after the writes of the
\* master-mode, divider, CPOL and CPHA fields, and no write of SPI1_CR1
\* follows it.
C7_EnableLast ==
  /\ \A i \in Written("SPI1_CR1") :
       6 \in wlog[i].val =>
         /\ \A j \in Written("SPI1_CR1") : j <= i
         /\ \E z \in Written("SPI1_CR1") : z < i /\ wlog[z].val = {}
         /\ { 66, 67, 68, 69 } \subseteq { wlog[j].line : j \in { k \in Written("SPI1_CR1") : k < i } }
  /\ (Written("SPI1_CR1") # {} /\ Cardinality(Written("SPI1_CR1")) < 6
        => 6 \notin regs["SPI1_CR1"])
  /\ (pc \notin { "L37", "spi_init" } => 6 \in regs["SPI1_CR1"])

C7_Witness ==
  pc = "L41" /\ 6 \in pre["SPI1_CR1"] /\ 6 \in regs["SPI1_CR1"] /\ Cardinality(Written("SPI1_CR1")) = 6

\* C8: after spi_init every bit of GPIOA_MODER outside bits 8..15 and every bit
\* of GPIOA_AFRL outside bits 16..31 has its value from before the call.
C8_FieldIsolation ==
  pc \notin { "L37", "spi_init" } =>
    /\ \A b \in WORD \ (8 .. 15) : b \in regs["GPIOA_MODER"] <=> b \in pre["GPIOA_MODER"]
    /\ \A b \in WORD \ (16 .. 31) : b \in regs["GPIOA_AFRL"] <=> b \in pre["GPIOA_AFRL"]

C8_Witness ==
  /\ pc = "L41"
  /\ regs["GPIOA_MODER"] # pre["GPIOA_MODER"] /\ 31 \in pre["GPIOA_MODER"]
  /\ regs["GPIOA_AFRL"] # pre["GPIOA_AFRL"] /\ 0 \in pre["GPIOA_AFRL"]

\* C9: once the two clock-enable statements have run, RCC_AHB1ENR bit 0 and
\* RCC_APB2ENR bit 12 are 1 and every other bit of the two registers has its
\* value from before the call; no bit of them is ever cleared.
C9_ClockBitsOnly ==
  /\ pre["RCC_AHB1ENR"] \subseteq regs["RCC_AHB1ENR"]
  /\ pre["RCC_APB2ENR"] \subseteq regs["RCC_APB2ENR"]
  /\ (Len(wlog) >= 2 =>
        /\ 0 \in regs["RCC_AHB1ENR"] /\ 12 \in regs["RCC_APB2ENR"]
        /\ \A b \in WORD \ {0} : b \in regs["RCC_AHB1ENR"] <=> b \in pre["RCC_AHB1ENR"]
        /\ \A b \in WORD \ {12} : b \in regs["RCC_APB2ENR"] <=> b \in pre["RCC_APB2ENR"])

C9_Witness ==
  /\ Len(wlog) = 2
  /\ pre["RCC_AHB1ENR"] = {20} /\ regs["RCC_AHB1ENR"] = {0, 20}
  /\ pre["RCC_APB2ENR"] = {0, 14} /\ regs["RCC_APB2ENR"] = {0, 12, 14}

\* C10: a status read that shows the awaited flag missing (TXE clear, BSY set,
\* RXNE clear) leaves the call in the same spin-wait with nothing else
\* changed: no data-register access, no output-register write, no return; and
\* chip-select is low throughout the three spin-waits.  There is no other way
\* out of a spin-wait than a read that shows the awaited value.
C10_StallsInSpinWait ==
  /\ [][ /\ (pc = "L76" /\ 1 \notin sr' => pc' = "L76")
         /\ (pc = "L79" /\ 7 \in sr' => pc' = "L79")
         /\ (pc = "L85" /\ 0 \notin sr' => pc' = "L85")
         /\ (pc \in { "L76", "L79", "L85" } /\ pc' = pc =>
               UNCHANGED << regs, txdr, rxdr, received_data, retval,
                            drWrites, drReads, odrWrites, csRises >>)
         /\ (pc = "L76" /\ pc' # "L76" => 1 \in sr' /\ pc' = "L77")
         /\ (pc = "L79" /\ pc' # "L79" => 7 \notin sr' /\ pc' = "L85")
         /\ (pc = "L85" /\ pc' # "L85" => 0 \in sr' /\ pc' = "L86") ]_vars
  /\ [](pc \in { "L76", "L79", "L85" } => CSLow)

C10_Witness ==
  pc = "L79" /\ 7 \in sr /\ polls = MaxPolls /\ CSLow /\ drWrites = 1 /\ drReads = 0

\* C11: the pin configuration writes GPIOA_MODER once and GPIOA_AFRL once,
\* each time a value that has the four pins' fields cleared and set; a value
\* with a field cleared and not yet set is never written.
C11_OneWritePerPinRegister ==
  /\ Cardinality(Written("GPIOA_MODER")) <= 1
  /\ Cardinality(Written("GPIOA_AFRL")) <= 1
  /\ \A i \in Written("GPIOA_MODER") :
       wlog[i].val \cap (8 .. 15) = { 9, 11, 13, 15 }
  /\ \A i \in Written("GPIOA_AFRL") :
       wlog[i].val \cap (16 .. 31) = { 16, 18, 20, 22, 24, 26, 28, 30 }

\* The order of one call's register accesses.
CallOrder ==
  << <<"CS=0">>, <<"SR", "TXE", 1>>, <<"DR", "write">>, <<"SR", "BSY", 0>>,
     <<"SR", "RXNE", 1>>, <<"DR", "read">>, <<"CS=1">> >>

\* C12: in one call the accesses come in this order, none moved and none
\* left out: chip-select cleared, status read with TXE = 1, data-register
\* write, status read with BSY = 0, status read with RXNE = 1, data-register
\* read, chip-select set.
C12_CallOrder ==
  /\ Len(events) <= Len(CallOrder)
  /\ events = SubSeq(CallOrder, 1, Len(events))
  /\ (pc \in { "L95", "L42" } => events = CallOrder)
  /\ (drReads > 0 => \E i \in 1 .. Len(events) : events[i] = <<"SR", "BSY", 0>>)

C12_Witness == pc = "L95" /\ events = CallOrder /\ CSHigh

\* C13: when the first N status reads of a call show TXE = 0 and the next
\* shows TXE = 1, the data register is written after exactly N + 1 status
\* reads (for the N the counters tell exactly: N + 1 < MaxPolls).
C13_BusyWaitCount ==
  /\ (pc = "L76" /\ polls < MaxPolls => polls = idleReads)
  /\ (pc = "L77" /\ polls < MaxPolls => polls = idleReads + 1)

C13_Witness == pc = "L77" /\ idleReads = 3 /\ polls = 4 /\ 1 \in sr

\* C14: after spi_init SPI1_CR1 holds master = 1, divider = 3, CPOL = 0,
\* CPHA = 0, enable = 1 and 0 in every other bit, whatever it held before.
C14_ControlRegisterValue ==
  pc \notin { "L37", "spi_init" } =>
    /\ 2 \in regs["SPI1_CR1"]
    /\ 3 \in regs["SPI1_CR1"] /\ 4 \in regs["SPI1_CR1"] /\ 5 \notin regs["SPI1_CR1"]
    /\ 1 \notin regs["SPI1_CR1"]
    /\ 0 \notin regs["SPI1_CR1"]
    /\ 6 \in regs["SPI1_CR1"]
    /\ \A b \in WORD \ (0 .. 6) : b \notin regs["SPI1_CR1"]

C14_Witness ==
  pc = "L41" /\ pre["SPI1_CR1"] = 0 .. 15 /\ regs["SPI1_CR1"] = { 2, 3, 4, 6 }

\* Pin p of port A is in alternate-function mode with function 5 selected.
Routed(p) ==
  /\ 2 * p \notin regs["GPIOA_MODER"] /\ 2 * p + 1 \in regs["GPIOA_MODER"]
  /\ 4 * p \in regs["GPIOA_AFRL"] /\ 4 * p + 1 \notin regs["GPIOA_AFRL"]
  /\ 4 * p + 2 \in regs["GPIOA_AFRL"] /\ 4 * p + 3 \notin regs["GPIOA_AFRL"]

\* C15: after spi_init each of PA4..PA7 has mode field 2 (alternate function)
\* and alternate-function selector 5, whatever the registers held before.
C15_PinsRouted == pc \notin { "L37", "spi_init" } => \A p \in 4 .. 7 : Routed(p)

C15_Witness ==
  /\ pc = "L41"
  /\ pre["GPIOA_MODER"] = WORD /\ pre["GPIOA_AFRL"] = WORD
  /\ \A p \in 4 .. 7 : Routed(p)

\* Clocks enabled, pins routed, control register programmed, peripheral enabled.
Configured ==
  /\ 0 \in regs["RCC_AHB1ENR"] /\ 12 \in regs["RCC_APB2ENR"]
  /\ \A p \in 4 .. 7 : Routed(p)
  /\ regs["SPI1_CR1"] \ {6} = { 2, 3, 4 }
  /\ 6 \in regs["SPI1_CR1"]

\* C16: no access of the transfer engine (output-data write, status read,
\* data-register read or write) happens before spi_init has completed, and
\* from then on, at every exchange call and throughout it, the peripheral is
\* configured.
C16_ConfiguredBeforeTransfer ==
  /\ (pc \in { "L37", "spi_init" } =>
        /\ events = << >> /\ polls = 0
        /\ drWrites = 0 /\ drReads = 0 /\ odrWrites = 0
        /\ regs["GPIOA_ODR"] = pre["GPIOA_ODR"])
  /\ (pc \notin { "L37", "spi_init" } => ipc = 13 /\ Len(wlog) = 12 /\ Configured)

C16_Witness == pc = "L91" /\ Configured /\ retval = << >> /\ rxdr = Bits(170)

\* The CPU never halts, and the hardware in the end shows each awaited flag
\* value to a spin-wait that keeps polling for it.
Fairness ==
  /\ WF_vars(Next)
  /\ WF_vars(transmit_wait_TXE /\ pc' = "L77")
  /\ WF_vars(transmit_wait_BSY /\ pc' = "L85")
  /\ WF_vars(receive_wait_RXNE /\ pc' = "L86")

\* main entered right after reset: the configuration registers hold their
\* reset values, GPIOA_ODR any of its values.
FairInit ==
  /\ Init
  /\ pre["RCC_AHB1ENR"] = {20} /\ pre["RCC_APB2ENR"] = {}
  /\ pre["GPIOA_MODER"] = {27, 29, 31} /\ pre["GPIOA_AFRL"] = {}
  /\ pre["SPI1_CR1"] = {}

FairSpec == FairInit /\ [][Next]_vars /\ Fairness

\* C17: when the hardware in the end shows TXE set, then BSY clear, then RXNE
\* set, every call of spi_exchange_data returns with chip-select high, and the
\* caller's loop starts a call again and again.
C17_EveryCallReturns ==
  /\ (pc = "L91") ~> (pc = "L42" /\ CSHigh)
  /\ []<>(pc = "L91")

C17_Witness ==
  pc = "L42" /\ CSHigh /\ pre["GPIOA_ODR"] = {} /\ drWrites = 1 /\ drReads = 1 /\ polls = 0

ConfigRegs == { "RCC_AHB1ENR", "RCC_APB2ENR", "GPIOA_MODER", "GPIOA_AFRL", "SPI1_CR1" }

\* C18: once spi_init has returned no step changes RCC_AHB1ENR, RCC_APB2ENR,
\* GPIOA_MODER, GPIOA_AFRL or SPI1_CR1 (PA4 stays in alternate-function mode,
\* the enable bit stays 1), and in GPIOA_ODR only bit 4 changes.
C18_ConfigUntouched ==
  /\ [][ pc \notin { "L37", "spi_init" } =>
           /\ \A r \in ConfigRegs : regs'[r] = regs[r]
           /\ regs'["GPIOA_ODR"] \ {4} = regs["GPIOA_ODR"] \ {4} ]_vars
  /\ [](pc \notin { "L37", "spi_init" } =>
           /\ 9 \in regs["GPIOA_MODER"] /\ 8 \notin regs["GPIOA_MODER"]
           /\ 6 \in regs["SPI1_CR1"]
           /\ regs["GPIOA_ODR"] \ {4} = pre["GPIOA_ODR"] \ {4})

C18_Witness ==
  pc = "L42" /\ pre["GPIOA_ODR"] = (0 .. 15) \ {4} /\ regs["GPIOA_ODR"] = 0 .. 15

====
